---- MODULE Spec2Model ----
(***************************************************************************)
(* Vivteno: the polling-and-state-update engine of main.go (the multi-     *)
(* target version, src/unnamed/part_000).                                  *)
(*                                                                         *)
(* The Bubble Tea runtime is modelled as the code uses it: every tea.Cmd   *)
(* returned by Init or Update runs in its own goroutine (cmds), the        *)
(* message it returns waits to be received by the event loop (msgs), and   *)
(* the event loop hands one message at a time to model.Update.  tea.Quit   *)
(* is itself a command: its QuitMsg is queued like any other message and   *)
(* ends the loop only when it is received.                                 *)
(*                                                                         *)
(* The model starts where main starts: the environment is read and        *)
(* validated, and an invalid one ends the process with status 1 before     *)
(* the program is created.                                                 *)
(*                                                                         *)
(* Go strings built by fmt.Sprintf / fmt.Errorf are tuples of their parts, *)
(* the empty string is the empty tuple; a hostname is the tuple of its     *)
(* characters.                                                             *)
(***************************************************************************)
EXTENDS Integers, Sequences, FiniteSets, TLC

\* ---------------------------------------------------------------- bounds
\* Reachability checks dispatched per target before its timer stops firing.
MaxCycles == 2

\* Largest elapsed time of a successful dial, in milliseconds.
MaxLatencyMs == 0

\* ------------------------------------------------------ program constants
DefaultSchedule == "10s"

\* DefaultSleepBackoff, in seconds.
DefaultSleepBackoff == 10

HTTPSScheme == "https://"

\* ------------------------------------------------------------ configuration
\* The hostnames of a valid PING_WEBSITE array: two targets, a DNS name and
\* an IP literal.  A hostname is the tuple of its characters.
PingWebsite == << <<"a", ".", "i", "o">>, <<":", ":", "1">> >>

\* Indices of m.websites (Go slices count from 0).
Targets == 0 .. (Len(PingWebsite) - 1)

websites == [i \in Targets |-> PingWebsite[i + 1]]

\* ------------------------------------------------------------------ values
EmptyString == <<>>

\* A nil error.
NilErr == <<>>

\* fmt's %d and %v of a non-negative integer: its decimal digits.
Digits == <<"0", "1", "2", "3", "4", "5", "6", "7", "8", "9">>

RECURSIVE Itoa(_)
Itoa(n) ==
    IF n < 10
    THEN << Digits[n + 1] >>
    ELSE Itoa(n \div 10) \o << Digits[(n % 10) + 1] >>

\* map[string]any: the nil map, and a parsed JSON object.
NilMap == [isNil |-> TRUE, kv |-> <<>>]

VARIABLES
    env,                \* the environment main has still to read
    exitCode,           \* the status the process exited with
    schedule,           \* m.schedule
    healthEndpoint,     \* m.healthEndpoint: per-target health path
    lastPing,           \* m.lastPing
    lastError,          \* m.lastError
    lastHealthGeneric,  \* m.lastHealthGeneric
    quit,               \* m.quit
    cancelled,          \* m.ctx is done (m.cancel / cancel was called)
    cmds,               \* commands running in their goroutines
    msgs,               \* messages returned by commands, not yet received
    quitMsg,            \* a QuitMsg (tea.Quit, p.Quit) waits to be received
    exited,             \* p.Run returned
    pingCycle,          \* history: cycle that produced lastPing[i] (0: none)
    healthCycle,        \* history: cycle that produced lastHealthGeneric[i]
    lastApplied,        \* history: the result Update applied last, per target
    lastReach           \* history: the reachability result applied last

vars == <<env, exitCode, schedule, healthEndpoint, lastPing, lastError,
          lastHealthGeneric, quit, cancelled, cmds, msgs, quitMsg, exited,
          pingCycle, healthCycle, lastApplied, lastReach>>

config == <<env, schedule, healthEndpoint>>
obs == <<lastPing, lastError, lastHealthGeneric>>
hist == <<pingCycle, healthCycle, lastApplied, lastReach>>

\* ---------------------------------------------------------------- commands
\* A command carries the index it was created with; cyc is a history field
\* (the cycle the probe belongs to) that no handler reads.
pingWebsiteCmdWithContext(idx, cyc) ==
    [kind |-> "ping", Index |-> idx, cyc |-> cyc]

fetchHealthCmdWithContext(idx, cyc) ==
    [kind |-> "health", Index |-> idx, cyc |-> cyc]

\* time.ParseDuration on the interval strings considered: the duration in
\* seconds, or an error.
ParseDuration(s) ==
    CASE s = "10s" -> [dur |-> 10, ok |-> TRUE]
      [] s = "1m"  -> [dur |-> 60, ok |-> TRUE]
      [] OTHER     -> [dur |-> 0, ok |-> FALSE]

\* Mutant: the tick loses its index (one shared timer for every target).
schedulePing_NoIndex(sched, idx, cyc) ==
    [kind |-> "timer", Index |-> 0, cyc |-> cyc,
     dur |-> IF ParseDuration(sched).ok THEN ParseDuration(sched).dur
             ELSE DefaultSleepBackoff,
     defaulted |-> ~ParseDuration(sched).ok]

\* The timer sleeps dur; defaulted is a history field: the interval did not
\* parse and DefaultSleepBackoff was substituted.
schedulePing(sched, idx, cyc) ==
    [kind |-> "timer", Index |-> idx, cyc |-> cyc,
     dur |-> IF ParseDuration(sched).ok THEN ParseDuration(sched).dur
             ELSE DefaultSleepBackoff,
     defaulted |-> ~ParseDuration(sched).ok]

\* ------------------------------------------------------- network outcomes
\* Errors of dialer.DialContext that are not the context's.
DialErrors ==
    { <<"dial tcp", "connect: connection refused">>,
      <<"dial tcp", "i/o timeout">> }

DialCanceled == <<"dial tcp", "operation was canceled">>

\* Mutant: the dial is made without the context.
DialContext_IgnoresCtx(ctxDone) ==
    { NilErr } \cup DialErrors

\* dialer.DialContext(ctx, "tcp", host:80): a done context fails the dial,
\* otherwise the network decides.
DialContext(ctxDone) ==
    IF ctxDone
    THEN { DialCanceled }
    ELSE { NilErr } \cup DialErrors

Latencies == 0 .. MaxLatencyMs

\* What an HTTPS server may answer.
Statuses == {200, 500}

Bodies == {"{}", "null", "[]", "7", "<html>"}

\* Every body comes with status 200; a non-2xx status comes with the body
\* that would decode, the object.
Responses ==
    { [kind |-> "transport", status |-> 0, body |-> ""] } \cup
    { r \in [kind : {"http"}, status : Statuses, body : Bodies] :
          r.status = 200 \/ r.body = "{}" }

CanceledResponse == [kind |-> "canceled", status |-> 0, body |-> ""]

\* http.DefaultClient.Do(req) followed by io.ReadAll(resp.Body), under ctx.
HTTPDo(ctxDone) ==
    IF ctxDone THEN { CanceledResponse } ELSE Responses

\* json.Unmarshal(body, &data) with data a map[string]any: an object fills
\* the map, null leaves it nil without an error, anything else is an error.
Unmarshal(body) ==
    CASE body = "{}"   -> [data |-> [isNil |-> FALSE, kv |-> <<>>], err |-> NilErr]
      [] body = "null" -> [data |-> NilMap, err |-> NilErr]
      [] body = "[]"   -> [data |-> NilMap,
                           err |-> <<"json: cannot unmarshal array into map">>]
      [] body = "7"    -> [data |-> NilMap,
                           err |-> <<"json: cannot unmarshal number into map">>]
      [] OTHER         -> [data |-> NilMap,
                           err |-> <<"invalid character looking for beginning of value">>]

\* ---------------------------------------------------------------- messages
\* Mutant: the tick names the target after the one it was scheduled for.
tickMsgWithIndex_NextIndex(idx, cyc) ==
    [type |-> "tick", Index |-> idx + 1, cyc |-> cyc]

tickMsgWithIndex(idx, cyc) ==
    [type |-> "tick", Index |-> idx, cyc |-> cyc]

pingResultWithIndex(result, err, idx, cyc) ==
    [type |-> "ping", Result |-> result, Err |-> err, Index |-> idx, cyc |-> cyc]

\* resp is a history field: the response the result was computed from.
healthResultGenericWithIndex(data, err, idx, cyc, resp) ==
    [type |-> "health", Data |-> data, Err |-> err, Index |-> idx, cyc |-> cyc,
     resp |-> resp]

\* The closure returned by pingWebsiteCmdWithContext, given the dial's error
\* and the elapsed milliseconds.
pingWebsiteResult(c, err, ms) ==
    IF err # NilErr
    THEN pingResultWithIndex(EmptyString, err, c.Index, c.cyc)
    ELSE pingResultWithIndex(
             <<"Ping to">> \o websites[c.Index] \o <<"TCP connect successful", "Time">>
                 \o Itoa(ms) \o <<"ms">>,
             NilErr, c.Index, c.cyc)

\* The closure returned by fetchHealthCmdWithContext, given the endpoint it
\* was created with and the response of the GET.
fetchHealthResult(c, endpoint, r) ==
    LET url == <<HTTPSScheme>> \o websites[c.Index] \o <<endpoint>>
        res(data, err) == healthResultGenericWithIndex(data, err, c.Index, c.cyc, r)
    IN  CASE endpoint = "" ->
               res(NilMap, <<"health endpoint not configured">>)
          [] endpoint # "" /\ r.kind = "canceled" ->
               res(NilMap, <<"Get">> \o url \o <<"context canceled">>)
          [] endpoint # "" /\ r.kind = "transport" ->
               res(NilMap, <<"Get">> \o url \o <<"connect: connection refused">>)
          [] endpoint # "" /\ r.kind = "http"
                /\ (r.status < 200 \/ r.status >= 300) ->
               res(NilMap, <<"health endpoint HTTP">> \o Itoa(r.status) \o <<r.body>>)
          [] OTHER ->
               IF Unmarshal(r.body).err # NilErr
               THEN res(NilMap, <<"invalid JSON from health endpoint">>
                                    \o Unmarshal(r.body).err \o <<"Body", r.body>>)
               ELSE res(Unmarshal(r.body).data, NilErr)

\* ------------------------------------------------------------ model.Update
\* The model value Update works on.  lastPing, lastError and
\* lastHealthGeneric are slices: writes through the copy are shared.
M == [lastPing |-> lastPing, lastError |-> lastError,
      lastHealthGeneric |-> lastHealthGeneric, quit |-> quit,
      schedule |-> schedule, healthEndpoint |-> healthEndpoint]

\* What Update returns: the model, the command (none: the empty set),
\* whether m.cancel() was called and whether the command is tea.Quit.
Ret(m, cmd) == [m |-> m, cmd |-> cmd, cancel |-> FALSE, quitCmd |-> FALSE]

\* Mutant: every tick restarts the first target.
UpdateTickMsg_FirstTarget(m, msg) ==
    Ret(m, { pingWebsiteCmdWithContext(0, msg.cyc + 1) })

\* case tickMsgWithIndex
UpdateTickMsg(m, msg) ==
    Ret(m, { pingWebsiteCmdWithContext(msg.Index, msg.cyc + 1) })

\* Mutant: a reachability failure leaves the health payload in place.
UpdatePingErr_KeepsHealth(m, msg) ==
    Ret([m EXCEPT !.lastError[msg.Index] = msg.Err,
                  !.lastPing[msg.Index] = EmptyString],
        { schedulePing(m.schedule, msg.Index, msg.cyc) })

\* Mutant: a reachability failure returns no command.
UpdatePingErr_NoCmd(m, msg) ==
    Ret([m EXCEPT !.lastError[msg.Index] = msg.Err,
                  !.lastPing[msg.Index] = EmptyString,
                  !.lastHealthGeneric[msg.Index] = NilMap],
        {})

\* Mutant: a reachability failure leaves the stale latency text in place.
UpdatePingErr_KeepsLatency(m, msg) ==
    Ret([m EXCEPT !.lastError[msg.Index] = msg.Err,
                  !.lastHealthGeneric[msg.Index] = NilMap],
        { schedulePing(m.schedule, msg.Index, msg.cyc) })

\* Mutant: a reachability failure is followed by the health check.
UpdatePingErr_ThenHealth(m, msg) ==
    LET m2 == [m EXCEPT !.lastError[msg.Index] = msg.Err,
                        !.lastPing[msg.Index] = EmptyString,
                        !.lastHealthGeneric[msg.Index] = NilMap]
    IN  IF m.healthEndpoint[msg.Index] # ""
        THEN Ret(m2, { fetchHealthCmdWithContext(msg.Index, msg.cyc) })
        ELSE Ret(m2, { schedulePing(m.schedule, msg.Index, msg.cyc) })

\* case pingResultWithIndex, msg.Err != nil
UpdatePingErr(m, msg) ==
    Ret([m EXCEPT !.lastError[msg.Index] = msg.Err,
                  !.lastPing[msg.Index] = EmptyString,
                  !.lastHealthGeneric[msg.Index] = NilMap],
        { schedulePing(m.schedule, msg.Index, msg.cyc) })

\* Mutant: a reachability success leaves the stale error in place.
UpdatePingOk_KeepsError(m, msg) ==
    LET m2 == [m EXCEPT !.lastPing[msg.Index] = msg.Result]
    IN  IF m.healthEndpoint[msg.Index] # ""
        THEN Ret(m2, { fetchHealthCmdWithContext(msg.Index, msg.cyc) })
        ELSE Ret(m2, { schedulePing(m.schedule, msg.Index, msg.cyc) })

\* Mutant: the health check is started whatever the health path.
UpdatePingOk_AlwaysHealth(m, msg) ==
    Ret([m EXCEPT !.lastPing[msg.Index] = msg.Result,
                  !.lastError[msg.Index] = EmptyString],
        { fetchHealthCmdWithContext(msg.Index, msg.cyc) })

\* case pingResultWithIndex, msg.Err == nil
UpdatePingOk(m, msg) ==
    LET m2 == [m EXCEPT !.lastPing[msg.Index] = msg.Result,
                        !.lastError[msg.Index] = EmptyString]
    IN  IF m.healthEndpoint[msg.Index] # ""
        THEN Ret(m2, { fetchHealthCmdWithContext(msg.Index, msg.cyc) })
        ELSE Ret(m2, { schedulePing(m.schedule, msg.Index, msg.cyc) })

\* Mutant: a health failure returns no command.
UpdateHealthResult_NoCmdOnErr(m, msg) ==
    IF msg.Err = NilErr
    THEN Ret([m EXCEPT !.lastHealthGeneric[msg.Index] = msg.Data],
             { schedulePing(m.schedule, msg.Index, msg.cyc) })
    ELSE Ret([m EXCEPT !.lastHealthGeneric[msg.Index] = NilMap,
                       !.lastError[msg.Index] = msg.Err],
             {})

\* Mutant: a health failure records the error and keeps the old payload.
UpdateHealthResult_KeepsPayloadOnErr(m, msg) ==
    IF msg.Err = NilErr
    THEN Ret([m EXCEPT !.lastHealthGeneric[msg.Index] = msg.Data],
             { schedulePing(m.schedule, msg.Index, msg.cyc) })
    ELSE Ret([m EXCEPT !.lastError[msg.Index] = msg.Err],
             { schedulePing(m.schedule, msg.Index, msg.cyc) })

\* Mutant: a health failure is treated like a reachability failure.
UpdateHealthResult_ClearsPing(m, msg) ==
    IF msg.Err = NilErr
    THEN Ret([m EXCEPT !.lastHealthGeneric[msg.Index] = msg.Data],
             { schedulePing(m.schedule, msg.Index, msg.cyc) })
    ELSE Ret([m EXCEPT !.lastHealthGeneric[msg.Index] = NilMap,
                       !.lastError[msg.Index] = msg.Err,
                       !.lastPing[msg.Index] = EmptyString],
             { schedulePing(m.schedule, msg.Index, msg.cyc) })

\* case healthResultGenericWithIndex
UpdateHealthResult(m, msg) ==
    IF msg.Err = NilErr
    THEN Ret([m EXCEPT !.lastHealthGeneric[msg.Index] = msg.Data],
             { schedulePing(m.schedule, msg.Index, msg.cyc) })
    ELSE Ret([m EXCEPT !.lastHealthGeneric[msg.Index] = NilMap,
                       !.lastError[msg.Index] = msg.Err],
             { schedulePing(m.schedule, msg.Index, msg.cyc) })

\* case tea.KeyMsg
Keys == {"q", "ctrl+c", "x", "Q", "esc"}

\* Mutant: esc quits as well.
UpdateKeyMsg_EscQuits(m, key) ==
    IF key = "ctrl+c" \/ key = "q" \/ key = "esc"
    THEN [m |-> [m EXCEPT !.quit = TRUE], cmd |-> {}, cancel |-> TRUE,
          quitCmd |-> TRUE]
    ELSE Ret(m, {})

UpdateKeyMsg(m, key) ==
    IF key = "ctrl+c" \/ key = "q"
    THEN [m |-> [m EXCEPT !.quit = TRUE], cmd |-> {}, cancel |-> TRUE,
          quitCmd |-> TRUE]
    ELSE Ret(m, {})

Update(m, msg) ==
    CASE msg.type = "tick" -> UpdateTickMsg(m, msg)
      [] msg.type = "ping" /\ msg.Err # NilErr -> UpdatePingErr(m, msg)
      [] msg.type = "ping" /\ msg.Err = NilErr -> UpdatePingOk(m, msg)
      [] msg.type = "health" -> UpdateHealthResult(m, msg)
      [] msg.type = "key" -> UpdateKeyMsg(m, msg.key)

\* --------------------------------------------------------------- start-up
\* initialModel(websites, schedule, healthEndpoints, ctx, cancel): one empty
\* slot per website in each slice, quit false.
initialModel(sched, endpoints) ==
    [lastPing |-> [i \in Targets |-> EmptyString],
     lastError |-> [i \in Targets |-> EmptyString],
     lastHealthGeneric |-> [i \in Targets |-> NilMap],
     quit |-> FALSE,
     schedule |-> sched,
     healthEndpoint |-> endpoints]

\* model.Init: one reachability check per website, batched.
ModelInit == { pingWebsiteCmdWithContext(i, 1) : i \in Targets }

NoneApplied == [type |-> "none", Err |-> NilErr]

\* net.ParseIP on the hostnames considered.
IPLiterals == { <<":", ":", "1">> }

ParseIP(host) == host \in IPLiterals

\* The characters of the class [a-zA-Z0-9-] that occur in the hostnames
\* considered; " " and "." are outside it.
LabelChars == {"a", "b", "i", "o", "1", "-"}

\* The position after the longest run [a-zA-Z0-9-]* that starts at k.
RECURSIVE LabelEnd(_, _)
LabelEnd(host, k) ==
    IF k <= Len(host) /\ host[k] \in LabelChars THEN LabelEnd(host, k + 1)
    ELSE k

\* ^([a-zA-Z0-9-]+\.)*[a-zA-Z0-9-]+$ matched from position k.
RECURSIVE MatchString(_, _)
MatchString(host, k) ==
    LET j == LabelEnd(host, k) IN
    /\ j > k
    /\ \/ j = Len(host) + 1
       \/ /\ j <= Len(host)
          /\ host[j] = "."
          /\ MatchString(host, j + 1)

isValidHostname(host) == ParseIP(host) \/ MatchString(host, 1)

\* Mutant: every interval is accepted.
isValidSchedule_Any(s) == TRUE

isValidSchedule(s) == ParseDuration(s).ok

\* time.LoadLocation on the zone names considered.
KnownZones == {"UTC"}

LoadLocation(name) == name \in KnownZones

\* A JSON text in the environment: raw is the variable's text, json the
\* shape encoding/json finds in it, items the strings of an array.
JSONArray(text, items) == [raw |-> text, json |-> "array", items |-> items]
NotJSON(text) == [raw |-> text, json |-> "invalid", items |-> <<>>]

\* json.Unmarshal(text, &[]string).
UnmarshalStrings(v) ==
    IF v.json = "array" THEN [ok |-> TRUE, list |-> v.items]
    ELSE [ok |-> FALSE, list |-> <<>>]

\* The environments main is started with.
WebsiteEnvs ==
    { JSONArray("two hosts", PingWebsite),
      JSONArray("[]", <<>>),
      JSONArray("empty entry", <<PingWebsite[1], <<>> >>),
      JSONArray("space in entry", <<PingWebsite[1], <<"b", " ", "o">> >>),
      JSONArray("trailing dot", <<PingWebsite[1], <<"b", ".">> >>),
      NotJSON("") }

ScheduleEnvs == {"", "1m", "soon"}

TimezoneEnvs == {"", "UTC", "Mars/Phobos"}

HealthEnvs ==
    { NotJSON(""),
      NotJSON("/health"),
      JSONArray("[\"/health\",\"\"]", <<"/health", "">>),
      JSONArray("[\"/health\"]", <<"/health">>) }

Envs ==
    [PING_WEBSITE : WebsiteEnvs, PING_SCHEDULE : ScheduleEnvs,
     TIMEZONE : TimezoneEnvs, HEALTH_ENDPOINT : HealthEnvs]

\* The environment once main has read it.
NoEnv == [read |-> TRUE]

Exit1(text) == [ok |-> FALSE, out |-> text, schedule |-> "", healthEndpoints |-> <<>>]

\* Mutant: a mismatched HEALTH_ENDPOINT array is padded instead of rejected.
main_PadsHealth(e) ==
    LET w == UnmarshalStrings(e.PING_WEBSITE)
        sched == IF e.PING_SCHEDULE = "" THEN DefaultSchedule ELSE e.PING_SCHEDULE
        h == UnmarshalStrings(e.HEALTH_ENDPOINT)
    IN  IF ~w.ok \/ Len(w.list) = 0
        THEN Exit1("PING_WEBSITE must be a JSON array of at least one website")
        ELSE IF \E k \in 1 .. Len(w.list) : ~isValidHostname(w.list[k])
        THEN Exit1("Invalid website in PING_WEBSITE")
        ELSE IF ~isValidSchedule(sched)
        THEN Exit1("Invalid PING_SCHEDULE")
        ELSE IF e.TIMEZONE # "" /\ ~LoadLocation(e.TIMEZONE)
        THEN Exit1("Invalid TIMEZONE")
        ELSE [ok |-> TRUE, out |-> "", schedule |-> sched,
              healthEndpoints |->
                  IF e.HEALTH_ENDPOINT.raw = ""
                  THEN [k \in 1 .. Len(w.list) |-> ""]
                  ELSE IF ~h.ok
                  THEN [k \in 1 .. Len(w.list) |-> e.HEALTH_ENDPOINT.raw]
                  ELSE [k \in 1 .. Len(w.list) |->
                           IF k <= Len(h.list) THEN h.list[k] ELSE ""]]

\* main up to the construction of the model: the configuration is parsed and
\* validated; the first invalid piece prints its message and exits with
\* status 1.
main(e) ==
    LET w == UnmarshalStrings(e.PING_WEBSITE)
        sched == IF e.PING_SCHEDULE = "" THEN DefaultSchedule ELSE e.PING_SCHEDULE
        h == UnmarshalStrings(e.HEALTH_ENDPOINT)
    IN  IF ~w.ok \/ Len(w.list) = 0
        THEN Exit1("PING_WEBSITE must be a JSON array of at least one website")
        ELSE IF \E k \in 1 .. Len(w.list) : ~isValidHostname(w.list[k])
        THEN Exit1("Invalid website in PING_WEBSITE")
        ELSE IF ~isValidSchedule(sched)
        THEN Exit1("Invalid PING_SCHEDULE")
        ELSE IF e.TIMEZONE # "" /\ ~LoadLocation(e.TIMEZONE)
        THEN Exit1("Invalid TIMEZONE")
        ELSE IF e.HEALTH_ENDPOINT.raw # "" /\ h.ok /\ Len(h.list) # Len(w.list)
        THEN Exit1("HEALTH_ENDPOINT must be a JSON array with the same length as PING_WEBSITE")
        ELSE [ok |-> TRUE, out |-> "", schedule |-> sched,
              healthEndpoints |->
                  IF e.HEALTH_ENDPOINT.raw = ""
                  THEN [k \in 1 .. Len(w.list) |-> ""]
                  ELSE IF ~h.ok
                  THEN [k \in 1 .. Len(w.list) |-> e.HEALTH_ENDPOINT.raw]
                  ELSE h.list]

\* The process is started: main has everything still to do.
Init ==
    /\ env \in Envs
    /\ exitCode = 0
    /\ schedule = ""
    /\ healthEndpoint = [i \in Targets |-> ""]
    /\ lastPing = [i \in Targets |-> EmptyString]
    /\ lastError = [i \in Targets |-> EmptyString]
    /\ lastHealthGeneric = [i \in Targets |-> NilMap]
    /\ quit = FALSE
    /\ cancelled = FALSE
    /\ cmds = {}
    /\ msgs = {}
    /\ quitMsg = FALSE
    /\ exited = FALSE
    /\ pingCycle = [i \in Targets |-> 0]
    /\ healthCycle = [i \in Targets |-> 0]
    /\ lastApplied = [i \in Targets |-> NoneApplied]
    /\ lastReach = [i \in Targets |-> NoneApplied]

started == env = NoEnv

\* main runs: an invalid configuration exits with status 1; a valid one
\* builds the model and the live context, and p.Run starts the commands of
\* model.Init.
Startup ==
    /\ ~started
    /\ env' = NoEnv
    /\ LET r == main(env) IN
       IF r.ok
       THEN LET m == initialModel(r.schedule,
                        [i \in Targets |-> r.healthEndpoints[i + 1]]) IN
            /\ schedule' = m.schedule
            /\ healthEndpoint' = m.healthEndpoint
            /\ lastPing' = m.lastPing
            /\ lastError' = m.lastError
            /\ lastHealthGeneric' = m.lastHealthGeneric
            /\ quit' = m.quit
            /\ cmds' = ModelInit
            /\ UNCHANGED <<exitCode, exited>>
       ELSE /\ exitCode' = 1
            /\ exited' = TRUE
            /\ UNCHANGED <<schedule, healthEndpoint, obs, quit, cmds>>
    /\ UNCHANGED <<cancelled, msgs, quitMsg, hist>>

\* ------------------------------------------------------ commands complete
\* A command's goroutine returns its message and sends it to the event loop.
Completes(c, msg) ==
    /\ ~exited
    /\ c \in cmds
    /\ cmds' = cmds \ {c}
    /\ msgs' = msgs \cup {msg}
    /\ UNCHANGED <<config, exitCode, obs, quit, cancelled, quitMsg, exited, hist>>

\* schedulePing's closure: the sleep ends.  The cycle count is bounded here.
TimerFires(c) ==
    /\ c.kind = "timer"
    /\ c.cyc < MaxCycles
    /\ Completes(c, tickMsgWithIndex(c.Index, c.cyc))

\* pingWebsiteCmdWithContext's closure returns.
PingCompletes(c) ==
    /\ c.kind = "ping"
    /\ \E err \in DialContext(cancelled), ms \in Latencies :
           /\ err # NilErr => ms = 0
           /\ Completes(c, pingWebsiteResult(c, err, ms))

\* fetchHealthCmdWithContext's closure returns.
HealthCompletes(c) ==
    /\ c.kind = "health"
    /\ \E r \in HTTPDo(cancelled) :
           Completes(c, fetchHealthResult(c, healthEndpoint[c.Index], r))

\* ------------------------------------------------------------- event loop
\* The event loop stores the model Update returned and starts the returned
\* command.  The history variables note the cycle of the successful result
\* a stored value came from, and the result applied last.
Handled(msg, r) ==
    /\ lastPing' = r.m.lastPing
    /\ lastError' = r.m.lastError
    /\ lastHealthGeneric' = r.m.lastHealthGeneric
    /\ quit' = r.m.quit
    /\ healthEndpoint' = r.m.healthEndpoint
    /\ schedule' = r.m.schedule
    /\ cancelled' = (cancelled \/ r.cancel)
    /\ quitMsg' = (quitMsg \/ r.quitCmd)
    /\ cmds' = cmds \cup r.cmd
    /\ UNCHANGED <<env, exitCode, exited>>
    /\ IF msg.type \in {"tick", "ping", "health"}
       THEN LET i == msg.Index IN
            /\ pingCycle' = [pingCycle EXCEPT ![i] =
                   IF r.m.lastPing[i] = EmptyString THEN 0
                   ELSE IF msg.type = "ping" /\ msg.Err = NilErr THEN msg.cyc
                   ELSE @]
            /\ healthCycle' = [healthCycle EXCEPT ![i] =
                   IF r.m.lastHealthGeneric[i] = NilMap THEN 0
                   ELSE IF msg.type = "health" /\ msg.Err = NilErr THEN msg.cyc
                   ELSE @]
            /\ lastApplied' = [lastApplied EXCEPT ![i] =
                   IF msg.type = "tick" THEN @
                   ELSE [type |-> msg.type, Err |-> msg.Err]]
            /\ lastReach' = [lastReach EXCEPT ![i] =
                   IF msg.type = "ping"
                   THEN [type |-> msg.type, Err |-> msg.Err]
                   ELSE @]
       ELSE UNCHANGED hist

\* The event loop receives a command's message and calls Update.
Receive(msg) ==
    /\ ~exited
    /\ msg \in msgs
    /\ msgs' = msgs \ {msg}
    /\ Handled(msg, Update(M, msg))

ReceiveTick(msg) == msg.type = "tick" /\ Receive(msg)

ReceivePingResult(msg) == msg.type = "ping" /\ Receive(msg)

ReceiveHealthResult(msg) == msg.type = "health" /\ Receive(msg)

\* A key is pressed: the event loop calls Update with the tea.KeyMsg.
ReceiveKey(key) ==
    /\ started
    /\ ~exited
    /\ UNCHANGED msgs
    /\ Handled([type |-> "key", key |-> key], Update(M, [type |-> "key", key |-> key]))

\* main's signal goroutine: os.Interrupt arrives, cancel(), p.Quit().
OSInterrupt ==
    /\ started
    /\ ~exited
    /\ cancelled' = TRUE
    /\ quitMsg' = TRUE
    /\ UNCHANGED <<config, exitCode, obs, quit, cmds, msgs, exited, hist>>

\* The event loop receives the QuitMsg: p.Run returns and main ends.
ReceiveQuit ==
    /\ ~exited
    /\ quitMsg
    /\ exited' = TRUE
    /\ UNCHANGED <<config, exitCode, obs, quit, cancelled, cmds, msgs, quitMsg, hist>>

Next ==
    \/ Startup
    \/ \E c \in cmds : TimerFires(c)
    \/ \E c \in cmds : PingCompletes(c)
    \/ \E c \in cmds : HealthCompletes(c)
    \/ \E msg \in msgs : ReceiveTick(msg)
    \/ \E msg \in msgs : ReceivePingResult(msg)
    \/ \E msg \in msgs : ReceiveHealthResult(msg)
    \/ \E key \in Keys : ReceiveKey(key)
    \/ OSInterrupt
    \/ ReceiveQuit

Spec == Init /\ [][Next]_vars

\* ================================================================ claims
\* The operations outstanding for target i: commands running and messages
\* not yet received.
OutstandingCmds(i) == { c \in cmds : c.Index = i }

OutstandingMsgs(i) == { msg \in msgs : msg.Index = i }

Outstanding(i) == Cardinality(OutstandingCmds(i)) + Cardinality(OutstandingMsgs(i))

PingFailedLast(i) == lastApplied[i].type = "ping" /\ lastApplied[i].Err # NilErr

HealthCleared ==
    \A i \in Targets :
        /\ PingFailedLast(i) => lastHealthGeneric[i] = NilMap
        /\ lastPing[i] = EmptyString => lastHealthGeneric[i] = NilMap

\* C1: a reachability failure leaves the health outcome cleared: right after
\* Update applies a failed reachability result for i the health payload is
\* nil, it stays nil until a health success for i is applied, and whenever
\* lastPing[i] is empty lastHealthGeneric[i] is nil.
C1_FailureClearsHealth ==
    /\ HealthCleared
    /\ [][ /\ HealthCleared'
           /\ \A i \in Targets :
                (lastHealthGeneric[i] = NilMap /\ lastHealthGeneric'[i] # NilMap) =>
                    \E msg \in msgs \ msgs' :
                        msg.type = "health" /\ msg.Index = i /\ msg.Err = NilErr
         ]_vars

\* C1 witness: a reachability failure was applied in the second cycle of a
\* target with a health path (a payload may have been stored in the first).
C1_Witness ==
    \E i \in Targets :
        /\ healthEndpoint[i] # ""
        /\ PingFailedLast(i)
        /\ schedulePing(schedule, i, 2) \in cmds
        /\ lastPing[i] = EmptyString

\* C2: while the program runs, every target has exactly one outstanding
\* operation (a probe, a timer, or the message one of them returned).
C2_OneOutstanding ==
    (started /\ ~exited) => \A i \in Targets : Outstanding(i) = 1

\* C2 witness: a target went through reachability, health and the delay, and
\* its next reachability check is the one outstanding operation.
C2_Witness ==
    /\ ~exited
    /\ \E i \in Targets :
           /\ pingWebsiteCmdWithContext(i, 2) \in cmds
           /\ healthCycle[i] = 1
           /\ Outstanding(i) = 1

HealthOutstanding(i) ==
    \/ \E c \in OutstandingCmds(i) : c.kind = "health"
    \/ \E msg \in OutstandingMsgs(i) : msg.type = "health"

MixesCycles(i) ==
    /\ lastPing[i] # EmptyString
    /\ lastHealthGeneric[i] # NilMap
    /\ pingCycle[i] # healthCycle[i]

\* C3 as stated: whenever the state holds a reachability success for T
\* together with a health payload for T, both were produced by the same cycle.
C3_NeverMixesCycles ==
    \A i \in Targets : ~MixesCycles(i)

\* C3 amended: whenever no health check of T is outstanding (T's cycle is
\* complete), a stored reachability success and a stored health payload of T
\* were produced by the same cycle.
C3_CompletedCyclesAgree ==
    \A i \in Targets : ~HealthOutstanding(i) => ~MixesCycles(i)

\* C3 witness: the second cycle of a target is complete and stored both a
\* reachability success and a health payload.
C3_Witness ==
    \E i \in Targets :
        /\ ~HealthOutstanding(i)
        /\ lastPing[i] # EmptyString
        /\ lastHealthGeneric[i] # NilMap
        /\ pingCycle[i] = 2
        /\ healthCycle[i] = 2

\* C4: the health check never gates the next reachability attempt: while the
\* health check of target i is still running, the delay timer of that cycle
\* (or the reachability check it leads to) is outstanding for i as well.
C4_HealthNeverGates ==
    \A i \in Targets :
        (\E c \in OutstandingCmds(i) : c.kind = "health")
            => \/ \E c \in OutstandingCmds(i) : c.kind \in {"timer", "ping"}
               \/ \E msg \in OutstandingMsgs(i) : msg.type \in {"tick", "ping"}

Non2xx(resp) ==
    resp.kind = "http" /\ (resp.status < 200 \/ resp.status >= 300)

Contains(text, part) ==
    \E k \in 1 .. Len(text) :
        k + Len(part) - 1 <= Len(text) /\ SubSeq(text, k, k + Len(part) - 1) = part

\* C5: applying a health result for target i leaves lastPing unchanged; on a
\* failure the payload is cleared, the error is recorded (with the status
\* code of a non-2xx response in it) and the reachability success remains.
C5_HealthKeepsReachability ==
    [][ \A msg \in msgs :
          (msg.type = "health" /\ msg \notin msgs') =>
             /\ lastPing' = lastPing
             /\ msg.Err # NilErr =>
                  /\ lastHealthGeneric'[msg.Index] = NilMap
                  /\ lastError'[msg.Index] = msg.Err
                  /\ lastPing'[msg.Index] # EmptyString
                  /\ Non2xx(msg.resp) =>
                        Contains(lastError'[msg.Index], Itoa(msg.resp.status))
      ]_vars

\* C5 witness: an HTTP 500 health result was applied: the error carries 500
\* and the reachability success is still recorded.
C5_Witness ==
    \E i \in Targets :
        /\ lastApplied[i].type = "health"
        /\ Contains(lastError[i], Itoa(500))
        /\ lastHealthGeneric[i] = NilMap
        /\ lastPing[i] # EmptyString

\* C6: lastError[i] reflects the result applied last for i: the error text of
\* a failed check, and empty after a success (also after a health success).
C6_LastErrorIsMostRecent ==
    \A i \in Targets :
        lastApplied[i].type # "none" =>
            lastError[i] = (IF lastApplied[i].Err = NilErr
                            THEN EmptyString
                            ELSE lastApplied[i].Err)

\* C6 witness: a health success was applied in the second cycle and no error
\* is shown.
C6_Witness ==
    \E i \in Targets :
        /\ lastApplied[i] = [type |-> "health", Err |-> NilErr]
        /\ healthCycle[i] = 2
        /\ lastError[i] = EmptyString

\* C7: handling the quit key cancels the context and sets quit for good;
\* after that no event changes a target's observation state or schedules a
\* new operation.
C7_QuitStopsEvents ==
    [][ /\ (~quit /\ quit') => cancelled'
        /\ quit => /\ quit'
                   /\ obs' = obs
                   /\ cmds' \subseteq cmds
      ]_vars

\* The errors a probe of target i returns when the context is done.
CancellationErrors(i) ==
    { DialCanceled,
      <<"Get", HTTPSScheme>> \o websites[i] \o <<healthEndpoint[i], "context canceled">> }

IsResult(msg) == msg.type \in {"ping", "health"}

\* C8: once cancellation was triggered, the cancellation error of a probe is
\* never recorded into lastError and never clears the recorded outcomes.
C8_CancellationNotRecorded ==
    [][ \A msg \in msgs :
          ( /\ cancelled
            /\ msg \notin msgs'
            /\ IsResult(msg)
            /\ msg.Err \in CancellationErrors(msg.Index) ) =>
             /\ lastError'[msg.Index] # msg.Err
             /\ lastPing'[msg.Index] = lastPing[msg.Index]
             /\ lastHealthGeneric'[msg.Index] = lastHealthGeneric[msg.Index]
      ]_vars

IsProbe(c) == c.kind \in {"ping", "health"}

\* C9: cancellation is never un-triggered, and every probe that completes
\* once the context is done (so every probe in flight when it was cancelled)
\* returns a cancellation error.
C9_CancellationReachesProbes ==
    [][ /\ cancelled => cancelled'
        /\ \A c \in cmds :
             (cancelled /\ IsProbe(c) /\ c \notin cmds') =>
                \E msg \in msgs' \ msgs :
                    /\ msg.type = c.kind
                    /\ msg.Index = c.Index
                    /\ msg.Err \in CancellationErrors(c.Index)
      ]_vars

\* C9 witness: the context is done and a probe returned a cancellation error.
C9_Witness ==
    /\ cancelled
    /\ \E msg \in msgs : IsResult(msg) /\ msg.Err \in CancellationErrors(msg.Index)

\* A step of target a's cycle: one of its commands completes, or one of its
\* messages is received.
TargetStep(a) ==
    \/ \E c \in OutstandingCmds(a) :
           TimerFires(c) \/ PingCompletes(c) \/ HealthCompletes(c)
    \/ \E msg \in OutstandingMsgs(a) : Receive(msg)

ProbeInFlight(b) == \E c \in OutstandingCmds(b) : IsProbe(c)

CycleBoundReached(a) ==
    \E c \in OutstandingCmds(a) : c.kind = "timer" /\ c.cyc >= MaxCycles

\* C10: targets progress independently: while a probe of B is in flight, the
\* next step of any other target A is enabled without an event of B.
C10_TargetsIndependent ==
    \A a \in Targets, b \in Targets :
        (a # b /\ ~exited /\ ProbeInFlight(b) /\ ~CycleBoundReached(a))
            => ENABLED TargetStep(a)

\* C10 witness: the first probe of B is still in flight while A has finished
\* as many cycles as the bound allows.
C10_Witness ==
    \E a \in Targets, b \in Targets :
        /\ a # b
        /\ ~exited
        /\ pingWebsiteCmdWithContext(b, 1) \in cmds
        /\ CycleBoundReached(a)
        /\ lastApplied[a].type # "none"

ReachSucceededLast(i) == lastReach[i].type = "ping" /\ lastReach[i].Err = NilErr

NoHealthPath(i) == started /\ healthEndpoint[i] = ""

\* C11: a target whose health path is empty never has a health check
\* outstanding and never a health result applied, so no payload and no
\* health error is ever recorded for it; its reachability success is stored
\* with the error cleared and followed by the delay, and the tick that ends
\* the delay starts the next reachability check.
C11_NoHealthWithoutPath ==
    /\ [](\A i \in Targets :
            NoHealthPath(i) =>
                /\ ~HealthOutstanding(i)
                /\ lastApplied[i].type # "health"
                /\ lastHealthGeneric[i] = NilMap
                /\ ReachSucceededLast(i) =>
                       lastPing[i] # EmptyString /\ lastError[i] = EmptyString)
    /\ [][ \A msg \in msgs :
             (msg \notin msgs' /\ NoHealthPath(msg.Index)) =>
                 /\ (msg.type = "ping" /\ msg.Err = NilErr) =>
                        /\ lastPing'[msg.Index] = msg.Result
                        /\ lastError'[msg.Index] = EmptyString
                        /\ schedulePing(schedule, msg.Index, msg.cyc) \in cmds'
                 /\ msg.type = "tick" =>
                        pingWebsiteCmdWithContext(msg.Index, msg.cyc + 1) \in cmds'
         ]_vars

\* C11 witness: a target without a health path succeeded in its first cycle
\* and its second reachability check is dispatched.
C11_Witness ==
    \E i \in Targets :
        /\ NoHealthPath(i)
        /\ ReachSucceededLast(i)
        /\ lastPing[i] # EmptyString
        /\ lastHealthGeneric[i] = NilMap
        /\ pingWebsiteCmdWithContext(i, 2) \in cmds

\* The bodies that are a JSON object.
JSONObjects == {"{}"}

GoodHealthResponse(resp) ==
    resp.kind = "http" /\ ~Non2xx(resp) /\ resp.body \in JSONObjects

\* C12: the health check of a configured path fails for a transport error,
\* a non-2xx status and every body that is not a JSON object (null, an
\* array, a scalar, no JSON at all), and succeeds with the parsed object
\* exactly for a 2xx response whose body is a JSON object.
C12_HealthFailsUnlessObject ==
    \A msg \in msgs :
        (msg.type = "health" /\ healthEndpoint[msg.Index] # "") =>
            IF GoodHealthResponse(msg.resp)
            THEN msg.Err = NilErr /\ msg.Data # NilMap
            ELSE msg.Err # NilErr /\ msg.Data = NilMap

\* A well-formed target: an IP literal, or labels of letters, digits and
\* hyphens joined by single dots.
WellFormedTarget(host) ==
    \/ host \in IPLiterals
    \/ /\ Len(host) > 0
       /\ \A k \in 1 .. Len(host) : host[k] \in LabelChars \cup {"."}
       /\ host[1] # "."
       /\ host[Len(host)] # "."
       /\ \A k \in 1 .. (Len(host) - 1) : ~(host[k] = "." /\ host[k + 1] = ".")

InvalidConfig(e) ==
    \/ e.PING_WEBSITE.json # "array"
    \/ Len(e.PING_WEBSITE.items) = 0
    \/ \E k \in 1 .. Len(e.PING_WEBSITE.items) :
           ~WellFormedTarget(e.PING_WEBSITE.items[k])
    \/ e.PING_SCHEDULE \notin {"", "10s", "1m"}
    \/ e.TIMEZONE \notin {"", "UTC"}
    \/ /\ e.HEALTH_ENDPOINT.json = "array"
       /\ Len(e.HEALTH_ENDPOINT.items) # Len(e.PING_WEBSITE.items)

NothingMonitored ==
    /\ cmds = {}
    /\ msgs = {}
    /\ \A i \in Targets :
           /\ lastApplied[i] = NoneApplied
           /\ lastPing[i] = EmptyString
           /\ lastError[i] = EmptyString
           /\ lastHealthGeneric[i] = NilMap

\* C13: an invalid configuration (no target list, an empty list, an empty or
\* malformed entry, an interval that does not parse, an unknown timezone, a
\* health list of another length) ends start-up with a non-zero exit status
\* and nothing dispatched or handled, then and ever after; a valid one
\* starts one reachability check per target, and an unset interval runs as
\* "10s".
C13_InvalidConfigExits ==
    /\ []((exitCode # 0) => (exited /\ NothingMonitored))
    /\ [][ ~started =>
             IF InvalidConfig(env)
             THEN exited' /\ exitCode' # 0 /\ NothingMonitored'
             ELSE /\ ~exited'
                  /\ exitCode' = 0
                  /\ cmds' = ModelInit
                  /\ env.PING_SCHEDULE = "" => schedule' = "10s"
         ]_vars

\* C13 witness: start-up failed.
C13_Witness ==
    started /\ exited /\ exitCode = 1 /\ NothingMonitored

Timers == { c \in cmds : c.kind = "timer" }

Phase(i) ==
    IF \/ \E c \in OutstandingCmds(i) : c.kind = "ping"
       \/ \E msg \in OutstandingMsgs(i) : msg.type = "ping"
    THEN "AwaitingReachability"
    ELSE IF HealthOutstanding(i) THEN "AwaitingHealth"
    ELSE "Idle"

\* The step moves target i along one edge of the cycle, or not at all.  A
\* success without a health path takes the edge to Idle as a failure does.
PhaseEdge(i) ==
    \/ Phase(i)' = Phase(i)
    \/ /\ Phase(i) = "Idle"
       /\ Phase(i)' = "AwaitingReachability"
    \/ /\ Phase(i) = "AwaitingReachability"
       /\ Phase(i)' = "AwaitingHealth"
       /\ ReachSucceededLast(i)'
    \/ /\ Phase(i) = "AwaitingReachability"
       /\ Phase(i)' = "Idle"
       /\ ~ReachSucceededLast(i)' \/ healthEndpoint[i] = ""
    \/ /\ Phase(i) = "AwaitingHealth"
       /\ Phase(i)' = "Idle"

Dispatched == cmds' \ cmds

\* C15: a target's phase moves only along Idle -> AwaitingReachability ->
\* AwaitingHealth -> Idle and AwaitingReachability -> Idle; a health check
\* is dispatched only by the handling of a reachability success of the same
\* target and cycle; a reachability failure and a health result of either
\* outcome dispatch the delay and nothing else, and a tick dispatches the
\* next reachability check and nothing else.
C15_PhaseEdges ==
    [][ (started /\ ~exited) =>
          /\ \A i \in Targets : PhaseEdge(i)
          /\ \A c \in Dispatched :
                 c.kind = "health" =>
                     \E msg \in msgs \ msgs' :
                         /\ msg.type = "ping"
                         /\ msg.Err = NilErr
                         /\ msg.Index = c.Index
                         /\ msg.cyc = c.cyc
          /\ \A msg \in msgs \ msgs' :
                 /\ (msg.type = "ping" /\ msg.Err # NilErr) =>
                        Dispatched = { schedulePing(schedule, msg.Index, msg.cyc) }
                 /\ msg.type = "health" =>
                        Dispatched = { schedulePing(schedule, msg.Index, msg.cyc) }
                 /\ msg.type = "tick" =>
                        Dispatched = { pingWebsiteCmdWithContext(msg.Index, msg.cyc + 1) }
      ]_vars

\* C15 witness: a target is awaiting the health check of its second cycle,
\* after a first cycle that ended with a health result.
C15_Witness ==
    \E i \in Targets :
        /\ Phase(i) = "AwaitingHealth"
        /\ fetchHealthCmdWithContext(i, 2) \in cmds
        /\ ReachSucceededLast(i)
        /\ lastApplied[i].type = "ping"

\* C16: handling an event that carries index i (a tick, a reachability
\* result, a health result) dispatches operations of target i only and
\* leaves lastPing, lastError, lastHealthGeneric and the outstanding
\* operations of every other target as they were.
C16_OnlyOwnTargetChanges ==
    [][ \A msg \in msgs \ msgs' :
          /\ \A c \in Dispatched : c.Index = msg.Index
          /\ \A j \in Targets \ {msg.Index} :
                 /\ lastPing'[j] = lastPing[j]
                 /\ lastError'[j] = lastError[j]
                 /\ lastHealthGeneric'[j] = lastHealthGeneric[j]
                 /\ OutstandingCmds(j)' = OutstandingCmds(j)
                 /\ OutstandingMsgs(j)' = OutstandingMsgs(j)
      ]_vars

\* C16 witness: a health failure was applied for one target while another
\* holds a reachability success and a payload of its own.
C16_Witness ==
    \E i \in Targets, j \in Targets :
        /\ i # j
        /\ lastApplied[i].type = "health"
        /\ lastError[i] # EmptyString
        /\ lastPing[j] # EmptyString
        /\ lastHealthGeneric[j] # NilMap
        /\ lastError[j] = EmptyString

\* C17: once a reachability result was applied for target i, lastPing[i] is
\* non-empty exactly when the reachability result applied last was a
\* success; applying a success stores its latency text and empties the
\* error, applying a failure stores the error and empties the latency text.
C17_LatencyIffLastReachSucceeded ==
    /\ [](\A i \in Targets :
            lastReach[i].type = "ping" =>
                (lastPing[i] # EmptyString <=> ReachSucceededLast(i)))
    /\ [][ \A msg \in msgs \ msgs' :
             msg.type = "ping" =>
                 IF msg.Err = NilErr
                 THEN /\ msg.Result # EmptyString
                      /\ lastPing'[msg.Index] = msg.Result
                      /\ lastError'[msg.Index] = EmptyString
                 ELSE /\ lastError'[msg.Index] = msg.Err
                      /\ lastPing'[msg.Index] = EmptyString
         ]_vars

\* C17 witness: one target failed its second reachability check after a
\* first success, another keeps its latency text under a health failure.
C17_Witness ==
    \E i \in Targets, j \in Targets :
        /\ lastReach[i].type = "ping"
        /\ ~ReachSucceededLast(i)
        /\ lastPing[i] = EmptyString
        /\ \E c \in OutstandingCmds(i) : c.kind = "timer" /\ c.cyc = 2
        /\ ReachSucceededLast(j)
        /\ lastApplied[j].type = "health"
        /\ lastApplied[j].Err # NilErr
        /\ lastPing[j] # EmptyString

KeyMsg(key) == [type |-> "key", key |-> key]

QuitKeys == {"q", "ctrl+c"}

\* C19: Update given a key other than q and ctrl+c returns the model as it
\* was and no command, and does not cancel; given q or ctrl+c it sets quit
\* and cancels.  The quit flag is set by no other step, and a step that sets
\* it leaves the context cancelled and the quit message sent.
C19_OtherKeysIgnored ==
    /\ [](\A key \in Keys :
            IF key \in QuitKeys
            THEN /\ Update(M, KeyMsg(key)).m.quit
                 /\ Update(M, KeyMsg(key)).cancel
                 /\ Update(M, KeyMsg(key)).m.lastPing = lastPing
                 /\ Update(M, KeyMsg(key)).m.lastError = lastError
                 /\ Update(M, KeyMsg(key)).m.lastHealthGeneric = lastHealthGeneric
            ELSE Update(M, KeyMsg(key)) =
                     [m |-> M, cmd |-> {}, cancel |-> FALSE, quitCmd |-> FALSE])
    /\ [][ (quit' # quit) =>
             /\ quit' /\ cancelled' /\ quitMsg'
             /\ UNCHANGED <<obs, cmds, msgs>>
         ]_vars

\* C19 witness: the quit key was pressed in the middle of a cycle, and other
\* keys can still arrive before the program ends.
C19_Witness ==
    /\ quit
    /\ cancelled
    /\ ~exited
    /\ \E i \in Targets : lastPing[i] # EmptyString
    /\ \E key \in Keys \ QuitKeys : ENABLED ReceiveKey(key)

\* C20: a stored health payload of target i goes with a stored reachability
\* success and an empty error of target i.
C20_PayloadImpliesReachable ==
    \A i \in Targets :
        lastHealthGeneric[i] # NilMap =>
            (lastPing[i] # EmptyString /\ lastError[i] = EmptyString)

\* C20 witness: a payload is stored while the next cycle's reachability
\* success is already recorded.
C20_Witness ==
    \E i \in Targets :
        /\ lastHealthGeneric[i] # NilMap
        /\ lastPing[i] # EmptyString
        /\ lastError[i] = EmptyString
        /\ healthCycle[i] = 1
        /\ pingCycle[i] = 2

\* The scheduling the cycle relies on: the goroutine of every command runs
\* to its end (the sleep ends, the dial and the request return), and the
\* event loop takes every message sent to it.
Fairness == \A a \in Targets : WF_vars(TargetStep(a))

FairSpec == Spec /\ Fairness

FailedLast(i) ==
    lastApplied[i].type \in {"ping", "health"} /\ lastApplied[i].Err # NilErr

\* C14: a failure never ends a target's monitoring: after a reachability or
\* health failure was applied for target i, and unless the program has
\* ended, a reachability check of i is outstanding again (up to the cycle
\* bound, where the last timer is left sleeping).
C14_FailureThenNextCheck ==
    \A i \in Targets :
        FailedLast(i) ~>
            \/ exited
            \/ Phase(i) = "AwaitingReachability"
            \/ CycleBoundReached(i)

\* C14 witness: the second reachability check of a target is dispatched
\* after the failure of its first cycle.
C14_Witness ==
    \E i \in Targets :
        /\ FailedLast(i)
        /\ ~exited
        /\ pingCycle[i] = 0
        /\ pingWebsiteCmdWithContext(i, 2) \in cmds

InRange(idx) == idx \in 0 .. (Len(PingWebsite) - 1)

\* The text of a result names the host of the target its index names.
NamesOwnHost(msg) ==
    /\ (msg.type = "ping" /\ msg.Err = NilErr) =>
           Contains(msg.Result, websites[msg.Index])
    /\ (msg.type = "health" /\ msg.resp.kind \in {"transport", "canceled"}
           /\ healthEndpoint[msg.Index] # "") =>
           Contains(msg.Err, websites[msg.Index])

====
